---- MODULE Spec2Model ----
(***************************************************************************)
(* Model of server/main.go: the cookie-session HTTP backend for vehicle   *)
(* lists and their records.  One in-memory MemoryStorage guarded by one   *)
(* sync.Mutex is shared by concurrently running request handlers.         *)
(*                                                                         *)
(* Strings are sequences of one-character strings.  A []Record is a Go    *)
(* slice header (arr, len, cap) over a backing array kept in `heap`, so   *)
(* that two headers over the same array alias as they do in Go.           *)
(* Time is counted in minutes.                                             *)
(***************************************************************************)
EXTENDS Integers, Sequences, FiniteSets, Bags, TLC

\* ------------------------------------------------------------------ bounds
\* number of request-handling goroutines that may run at the same time
NumWorkers == 2
\* number of requests the server accepts in one run
MaxRequests == 3
\* the session scenario: number of requests (logins and list reads)
SessionRequests == 3
\* the store scenario: number of logins, and of requests on the record route
StoreLogins == 1
StoreRequests == 4
\* the serial scenario: number of logins, of requests on the record route,
\* and of reads of the lists
SerialLogins == 2
SerialRequests == 4
SerialListReads == 1
\* the contended scenario: number of logins, of requests on the record
\* route, and of reads of the lists
LiveLogins == 1
LiveRequests == 3
LiveListReads == 1
\* last reading of the clock
MaxClock == 2

\* ------------------------------------------------------- program constants
Minute == 1
defaultExpiry == 5 * Minute
StatusOK == 200
StatusCreated == 201
StatusBadRequest == 400
StatusUnauthorized == 401
StatusNotFound == 404
StatusMethodNotAllowed == 405
\* unsafe.Sizeof(Record{}): an int64 and two string headers
RecordSize == 40
\* digits of 1<<63 - 1, the cutoff of strconv.ParseInt(s, 10, 64)
MaxInt64Digits == <<"9","2","2","3","3","7","2","0","3","6","8","5","4","7","7","5","8","0","7">>

\* ------------------------------------------------------------------ strings
Digits == <<"0","1","2","3","4","5","6","7","8","9">>
DigitChars == {Digits[k] : k \in 1..10}
DigitVal(c) == (CHOOSE k \in 1..10 : Digits[k] = c) - 1

RECURSIVE FormatUint(_)
FormatUint(n) == IF n < 10 THEN <<Digits[n + 1]>>
                 ELSE FormatUint(n \div 10) \o <<Digits[(n % 10) + 1]>>

\* strconv.FormatInt(n, 10), and the %d verb of fmt.Sprintf
FormatInt(n) == IF n < 0 THEN <<"-">> \o FormatUint(0 - n) ELSE FormatUint(n)

RECURSIVE StripZeros(_)
StripZeros(s) == IF Len(s) > 1 /\ Head(s) = "0" THEN StripZeros(Tail(s)) ELSE s

\* a < b for two digit strings of the same length
RECURSIVE DigitsLess(_, _)
DigitsLess(a, b) ==
    IF a = <<>> THEN FALSE
    ELSE IF Head(a) # Head(b) THEN DigitVal(Head(a)) < DigitVal(Head(b))
    ELSE DigitsLess(Tail(a), Tail(b))

RECURSIVE DigitsValue(_, _)
DigitsValue(s, acc) == IF s = <<>> THEN acc
                       ELSE DigitsValue(Tail(s), acc * 10 + DigitVal(Head(s)))

\* a parser that stops at the first digit instead of reading the whole text
ParseIntPrefix(s) ==
    IF s = <<>> \/ Head(s) \notin DigitChars THEN [err |-> "syntax", val |-> 0]
    ELSE [err |-> "nil", val |-> DigitVal(Head(s))]

\* strconv.ParseInt(s, 10, 64): an optional sign, then decimal digits only;
\* the magnitude may not exceed 1<<63 - 1 (1<<63 for a negative number).
\* The range test compares digit strings, as the magnitudes do not fit the
\* integers TLC computes with; a value is computed only for a string that passed.
ParseInt(s) ==
    IF s = <<>> THEN [err |-> "syntax", val |-> 0]
    ELSE LET neg  == Head(s) = "-"
             body == IF Head(s) \in {"+", "-"} THEN Tail(s) ELSE s
             mag  == StripZeros(body)
             over == \/ Len(mag) > Len(MaxInt64Digits)
                     \/ /\ Len(mag) = Len(MaxInt64Digits)
                        /\ DigitsLess(MaxInt64Digits, mag)
                        /\ ~(neg /\ mag = [MaxInt64Digits EXCEPT ![19] = "8"])
         IN  IF body = <<>> \/ \E k \in 1..Len(body) : body[k] \notin DigitChars
             THEN [err |-> "syntax", val |-> 0]
             ELSE IF over THEN [err |-> "range", val |-> 0]
             ELSE [err |-> "nil",
                   val |-> IF neg THEN 0 - DigitsValue(mag, 0) ELSE DigitsValue(mag, 0)]

\* url.Values.Get: the first value of the key, "" when the key is absent
QueryGet(q, key) == IF key \in DOMAIN q THEN q[key] ELSE <<>>

\* generateToken(id) at a clock reading t: fmt.Sprintf("%d-%d", id, t)
generateToken(id, t) == FormatInt(id) \o <<"-">> \o FormatInt(t)


\* ------------------------------------------------------------ encoding/json
\* A JSON text is modelled by its syntax check and, for an object, by the
\* literal text of each member: digits for a number, a quoted and escaped
\* text for a string.
Quote(s) ==
    LET esc(c) == IF c \in {"\"", "\\"} THEN <<"\\", c>> ELSE <<c>>
        RECURSIVE body(_)
        body(t) == IF t = <<>> THEN <<>> ELSE esc(Head(t)) \o body(Tail(t))
    IN  <<"\"">> \o body(s) \o <<"\"">>

RECURSIVE Unescape(_)
Unescape(t) ==
    IF t = <<>> THEN <<>>
    ELSE IF Head(t) = "\\" /\ Len(t) > 1 THEN <<t[2]>> \o Unescape(Tail(Tail(t)))
    ELSE <<Head(t)>> \o Unescape(Tail(t))

IsStringLit(v) == Len(v) >= 2 /\ v[1] = "\"" /\ v[Len(v)] = "\""
Unquote(v) == Unescape(SubSeq(v, 2, Len(v) - 1))

JSONNull == <<"n","u","l","l">>

\* json.Unmarshal of one member into an int64 field
DecodeInt(obj, key) ==
    IF key \notin DOMAIN obj \/ obj[key] = JSONNull THEN [err |-> FALSE, val |-> 0]
    ELSE LET p == ParseInt(obj[key])
         IN  IF p.err = "nil" /\ obj[key][1] # "+"
             THEN [err |-> FALSE, val |-> p.val]
             ELSE [err |-> TRUE, val |-> 0]

\* json.Unmarshal of one member into a string field
DecodeString(obj, key) ==
    IF key \notin DOMAIN obj \/ obj[key] = JSONNull THEN [err |-> FALSE, val |-> <<>>]
    ELSE IF IsStringLit(obj[key]) THEN [err |-> FALSE, val |-> Unquote(obj[key])]
    ELSE [err |-> TRUE, val |-> <<>>]

\* Record{}
ZeroRecord == [ID |-> 0, Plate |-> <<>>, VehicleType |-> <<>>]

\* json.NewDecoder(r.Body).Decode(&record)
DecodeRecord(body) ==
    IF ~body.wellFormed THEN [err |-> TRUE, record |-> ZeroRecord]
    ELSE LET id == DecodeInt(body.obj, "id")
             pl == DecodeString(body.obj, "plate")
             vt == DecodeString(body.obj, "vehicleType")
         IN  [err |-> id.err \/ pl.err \/ vt.err,
              record |-> [ID |-> id.val, Plate |-> pl.val, VehicleType |-> vt.val]]

\* a decoder that reports no error
DecodeCredsAny(body) == FALSE

\* json.NewDecoder(r.Body).Decode(&creds): only the error is used
DecodeCreds(body) ==
    IF ~body.wellFormed THEN TRUE
    ELSE \/ DecodeString(body.obj, "username").err
         \/ DecodeString(body.obj, "password").err
         \/ ("isRememberMe" \in DOMAIN body.obj
               /\ body.obj["isRememberMe"] \notin
                    {JSONNull, <<"t","r","u","e">>, <<"f","a","l","s","e">>})

\* an encoder that leaves the vehicle type out
EncodeRecordNoType(r) == [id |-> FormatInt(r.ID), plate |-> Quote(r.Plate)]

\* the JSON object json.Encoder writes for one Record
EncodeRecord(r) ==
    [id |-> FormatInt(r.ID), plate |-> Quote(r.Plate), vehicleType |-> Quote(r.VehicleType)]

\* ------------------------------------------------------------------ slices
\* the nil slice: what a map read yields for an absent key
NilSlice == [arr |-> 0, len |-> 0, cap |-> 0]

\* runtime size classes that a small []Record allocation is rounded up to
SizeClasses == <<8, 16, 24, 32, 48, 64, 80, 96, 112, 128, 144, 160, 176, 192, 208,
                 224, 240, 256, 288, 320, 352, 384, 416, 448, 480, 512>>

RoundUpSize(n) ==
    IF \E k \in 1..Len(SizeClasses) : SizeClasses[k] >= n
    THEN SizeClasses[CHOOSE k \in 1..Len(SizeClasses) :
                        /\ SizeClasses[k] >= n
                        /\ \A m \in 1..(k - 1) : SizeClasses[m] < n]
    ELSE n

\* capacity that append gives a grown slice (runtime growslice, cap < 256)
GrowCap(oldCap, newLen) ==
    LET doublecap == oldCap + oldCap
        newcap    == IF newLen > doublecap THEN newLen ELSE doublecap
    IN  RoundUpSize(newcap * RecordSize) \div RecordSize

\* the elements a slice header denotes in a heap
SliceSeq(h, hp) == [k \in 1..h.len |-> hp[h.arr][k]]

\* an append that always allocates and forgets to copy the old elements
SliceAppendFresh(s, rec, hp) ==
    [slice |-> [arr |-> Len(hp) + 1, len |-> s.len + 1, cap |-> s.len + 1],
     heap  |-> Append(hp, [k \in 1..(s.len + 1) |-> IF k = s.len + 1 THEN rec ELSE ZeroRecord])]

\* append(s, rec): in place when the capacity allows, else into a new array.
\* Yields the new header and the new heap.
SliceAppend(s, rec, hp) ==
    IF s.len < s.cap
    THEN [slice |-> [s EXCEPT !.len = s.len + 1],
          heap  |-> [hp EXCEPT ![s.arr][s.len + 1] = rec]]
    ELSE LET c   == GrowCap(s.cap, s.len + 1)
             new == [k \in 1..c |-> IF k <= s.len THEN hp[s.arr][k]
                                    ELSE IF k = s.len + 1 THEN rec ELSE ZeroRecord]
         IN  [slice |-> [arr |-> Len(hp) + 1, len |-> s.len + 1, cap |-> c],
              heap  |-> Append(hp, new)]

\* index (from 0) of the last record of the slice with the given ID, or -1
LastIndex(s, hp, recordID) ==
    IF \E k \in 1..s.len : hp[s.arr][k].ID = recordID
    THEN (CHOOSE k \in 1..s.len : /\ hp[s.arr][k].ID = recordID
                                  /\ \A m \in (k + 1)..s.len : hp[s.arr][m].ID # recordID) - 1
    ELSE 0 - 1

\* index (from 0) of the first record of the slice with the given ID, or -1:
\* the loop of handleDeleteRecord
FirstIndex(s, hp, recordID) ==
    IF \E k \in 1..s.len : hp[s.arr][k].ID = recordID
    THEN (CHOOSE k \in 1..s.len : /\ hp[s.arr][k].ID = recordID
                                  /\ \A m \in 1..(k - 1) : hp[s.arr][m].ID # recordID) - 1
    ELSE 0 - 1

\* ----------------------------------------------------------------- maps
\* an assignment that forgets the other keys
MapPutOnly(m, k, v) == [x \in {k} |-> v]
MapPut(m, k, v) == [x \in (DOMAIN m) \cup {k} |-> IF x = k THEN v ELSE m[x]]
EmptyMap == [x \in {} |-> 0]


\* ------------------------------------------------------------------- inputs
Workers == 1..NumWorkers

Routes == {"/login", "/api/v1/vehiclelists", "/api/v1/vehiclelist/record"}
Methods == {"GET", "POST", "DELETE", "PUT"}

\* a token no login of this server issues
ForgedToken == <<"x">>

\* values of the query parameters id and recordId; a request may also lack them
ParamStrings == { <<>>, <<"1">>, <<"+","2">>, <<"1","x">>,
                  <<"9","2","2","3","3","7","2","0","3","6","8","5","4","7","7","5","8","0","8">> }
Queries(key) == { EmptyMap } \cup { [k \in {key} |-> v] : v \in ParamStrings }

BadJSON == [wellFormed |-> FALSE, obj |-> EmptyMap]
JSONObject(o) == [wellFormed |-> TRUE, obj |-> o]

\* bodies of a Create Record request
RecordBodies ==
    { BadJSON,
      JSONObject([id |-> <<"1">>, plate |-> Quote(<<"A">>), vehicleType |-> Quote(<<"C">>)]),
      JSONObject([id |-> <<"1">>, plate |-> Quote(<<"\"">>), vehicleType |-> Quote(<<"C">>)]),
      JSONObject([id |-> <<"2">>]),
      JSONObject([id |-> Quote(<<"1">>), plate |-> Quote(<<"A">>)]) }

\* bodies of a login request
LoginBodies ==
    { BadJSON,
      JSONObject([username |-> Quote(<<"u">>), password |-> Quote(<<"p">>),
                  isRememberMe |-> <<"f","a","l","s","e">>]),
      JSONObject([username |-> <<"5">>]) }

\* the process environment and the configuration file main() may find
EnvURLs == { "", "http://localhost:8080" }
ConfigFiles ==
    { [readable |-> FALSE, BaseURL |-> "", TokenExpiry |-> 0],
      [readable |-> TRUE, BaseURL |-> "http://localhost:9000", TokenExpiry |-> 0],
      [readable |-> TRUE, BaseURL |-> "http://localhost:9000", TokenExpiry |-> 1 * Minute] }

\* the VehicleList of TestVehicleListsHandler
TestList == [ID |-> 1, DisplayName |-> "Test List", Name |-> "testList",
             Color |-> "", Order |-> 0, Status |-> 0]

\* contents of storage.Lists, which no handler writes: the empty map main()
\* makes, or the map the tests put there
InitialLists == { [x \in {} |-> TestList], [x \in {1} |-> TestList] }

\* ------------------------------------------------------------------- config
\* readConfig(path)
readConfig(file) ==
    IF ~file.readable THEN [err |-> TRUE, BaseURL |-> "", TokenExpiry |-> 0]
    ELSE [err |-> FALSE, BaseURL |-> file.BaseURL,
          TokenExpiry |-> IF file.TokenExpiry = 0 THEN 5 * Minute ELSE file.TokenExpiry]

\* the configuration part of main(): the values of the globals baseURL and
\* tokenExpiry when the server starts
mainConfig(envURL, file) ==
    LET config == readConfig(file)
    IN  IF envURL # "" THEN [baseURL |-> envURL, tokenExpiry |-> 0]
        ELSE IF ~config.err
             THEN [baseURL |-> config.BaseURL, tokenExpiry |-> config.TokenExpiry]
        ELSE [baseURL |-> "http://localhost:1608", tokenExpiry |-> defaultExpiry]

\* ------------------------------------------------------------------ context
contextWithID(ctx, id) == MapPut(ctx, "id", id)
\* a context read under another key
contextIDKey(ctx) == IF "ID" \in DOMAIN ctx THEN ctx["ID"] ELSE 0
contextID(ctx) == IF "id" \in DOMAIN ctx THEN ctx["id"] ELSE 0

\* -------------------------------------------------------------------- state
VARIABLES
    now,          \* the clock, in minutes
    tokenExpiry,  \* global tokenExpiry
    Lists,        \* storage.Lists
    Records,      \* storage.Records: list id -> slice header
    Tokens,       \* storage.Tokens: token -> [Expiry, ID]
    mu,           \* storage's mutex: 0 when free, else the worker holding it
    heap,         \* backing arrays of the []Record slices
    req,          \* per worker: the request it serves and its handler's locals
    accepted,     \* route -> number of requests accepted so far
    committed,    \* history: list id -> the sequence storage.Records holds for it
                  \* as of the last completed store operation
    created,      \* history: list id -> bag of the records whose create answered 201
    removed,      \* history: list id -> bag of the records whose delete answered 200
    issued,       \* history: the [id, token] of every login that answered 200
    obs,          \* history, per worker: what happened to the store during its request
    trail         \* history, when kept: the record requests answered so far, each
                  \* with the store it found and the store it left

vars == <<now, tokenExpiry, Lists, Records, Tokens, mu, heap, req, accepted,
          committed, created, removed, issued, obs, trail>>

NoCookie == [present |-> FALSE, value |-> <<>>]
Cookie(v) == [present |-> TRUE, value |-> v]
NoData == [Expiry |-> 0, ID |-> 0]
NoEntries == [null |-> FALSE, items |-> <<>>]
\* r.Body of a request whose handler has not read it
NoBody == [wellFormed |-> FALSE, obj |-> [unread |-> <<>>]]

\* nothing observed: the worker has no request
NoObs == [touched |-> FALSE, held |-> {}]

\* no trail is kept; a trail is kept and is empty
TrailOff == [on |-> FALSE, before |-> <<>>, runs |-> {}]
TrailOn == [on |-> TRUE, before |-> <<>>, runs |-> {}]

\* a worker with no request
Idle ==
    [pc |-> "idle", route |-> "", method |-> "", cookie |-> NoCookie,
     data |-> NoData, exists |-> FALSE, userID |-> <<>>, ctx |-> EmptyMap,
     idStr |-> <<>>, recordIDStr |-> <<>>, authed |-> FALSE, scoped |-> 0,
     id |-> 0, token |-> <<>>, expiry |-> 0,
     recordID |-> 0, record |-> ZeroRecord, records |-> NilSlice, i |-> 0, j |-> 0,
     view |-> <<>>,
     lists |-> <<>>, entries |-> NoEntries, setCookie |-> NoCookie, cookieExpires |-> 0,
     body |-> NoBody, totalCount |-> 0,
     status |-> 0, text |-> ""]

\* http.Error(w, text, code); return
Fail(r, code, text) == [r EXCEPT !.pc = "done", !.status = code, !.text = text]

InitWith(t) ==
    /\ now = 0
    /\ \E envURL \in EnvURLs, file \in ConfigFiles :
          tokenExpiry = mainConfig(envURL, file).tokenExpiry
    /\ Lists \in InitialLists
    /\ Records = EmptyMap
    /\ Tokens = EmptyMap
    /\ mu = 0
    /\ heap = <<>>
    /\ req = [w \in Workers |-> Idle]
    /\ accepted = [route \in Routes |-> 0]
    /\ committed = EmptyMap
    /\ created = EmptyMap
    /\ removed = EmptyMap
    /\ issued = <<>>
    /\ obs = [w \in Workers |-> NoObs]
    /\ trail = t

\* the server as main() starts it
Init == InitWith(TrailOff)

\* no worker has an answer to deliver
NoneDone == \A v \in Workers : req[v].pc # "done"

\* a request on the record route that is, or may yet turn out to be, a Get
\* Records or a Create Record: the kinds that are compared with what the
\* store held while they ran
Watched(r) ==
    r.route = "/api/v1/vehiclelist/record" /\ r.method \in {"", "GET", "POST"}

\* the part of a store snapshot that a request can see: all of it while the
\* request's list is not known, the entry of its list (if any) afterwards
Seen(r, m) ==
    IF r.method # "" THEN [x \in (DOMAIN m) \cap {r.id} |-> m[x]] ELSE m

\* what the trail keeps of an answered request r that found the store
\* `before` and left the store `after`
Summary(r, before, after) ==
    [token |-> r.cookie.value,
     key   |-> [store |-> before, method |-> r.method, idStr |-> r.idStr,
                recordIDStr |-> r.recordIDStr, body |-> r.body],
     out   |-> [status |-> r.status, text |-> r.text, entries |-> r.entries,
                store |-> after]]

\* the trail after a step: the store as a request finds it when it is
\* accepted; the summary of a request on the record route that had a valid
\* session, when its answer is delivered
Trail ==
    IF ~trail.on THEN trail
    ELSE IF \E v \in Workers : req[v].pc = "idle" /\ req'[v].pc # "idle"
    THEN [trail EXCEPT !.before = <<Records, heap>>]
    ELSE [trail EXCEPT !.runs = @ \cup
            { Summary(req[v], trail.before, <<Records, heap>>) :
                v \in { u \in Workers : /\ req[u].pc = "done" /\ req'[u].pc = "idle"
                                         /\ req[u].route = "/api/v1/vehiclelist/record"
                                         /\ req[u].authed } }]

\* history of worker v's request after a step of worker w (0: the clock)
Observe(w) ==
  /\ trail' = Trail
  /\ obs' = [v \in Workers |->
              IF req'[v].pc = "idle" THEN NoObs
              ELSE IF req[v].pc = "idle"
              THEN [touched |-> FALSE,
                    held |-> IF Watched(req'[v]) THEN {committed'} ELSE {}]
              ELSE [touched |-> obs[v].touched
                                  \/ (v = w /\ <<Lists, Records, Tokens, heap>>'
                                                 # <<Lists, Records, Tokens, heap>>),
                    held |-> IF Watched(req'[v])
                             THEN {Seen(req'[v], m) : m \in obs[v].held \cup {committed'}}
                             ELSE {}]]

\* time passes
Tick ==
    /\ NoneDone
    /\ now < MaxClock
    /\ now' = now + 1
    /\ UNCHANGED <<tokenExpiry, Lists, Records, Tokens, mu, heap, req, accepted, committed, created, removed, issued>>
    /\ Observe(0)

\* the cookies a client may send: none, a forged one, one the server issued
AnyCookie == {NoCookie, Cookie(ForgedToken)} \cup {Cookie(t) : t \in DOMAIN Tokens}

\* the response has been sent: the worker is free again.  A worker that has
\* answered does nothing else, so it is freed before any other step is taken.
Finish(w) ==
    /\ req[w].pc = "done"
    /\ req' = [req EXCEPT ![w] = Idle]
    /\ UNCHANGED <<now, tokenExpiry, Lists, Records, Tokens, mu, heap, accepted,
                   committed, created, removed, issued>>
    /\ Observe(w)


\* the server accepts a request on one of `routes`, routes it (the
\* registrations of main()) and runs its handler on the first free worker
Accept(w, routes, cookies) ==
    /\ NoneDone
    /\ req[w].pc = "idle"
    /\ \A v \in Workers : v < w => req[v].pc # "idle"
    /\ \E route \in routes :
         /\ accepted' = [accepted EXCEPT ![route] = @ + 1]
         /\ \E c \in IF route = "/login" THEN {NoCookie} ELSE cookies :
              req' = [req EXCEPT ![w] =
                        [Idle EXCEPT !.route = route, !.cookie = c,
                                     !.pc = IF route = "/login" THEN "loginHandler"
                                            ELSE "tokenMiddleware"]]
    /\ UNCHANGED <<now, tokenExpiry, Lists, Records, Tokens, mu, heap,
                   committed, created, removed, issued>>
    /\ Observe(w)

\* any request, while the run's budget lasts
Serve(w) ==
    /\ accepted["/login"] + accepted["/api/v1/vehiclelists"]
         + accepted["/api/v1/vehiclelist/record"] < MaxRequests
    /\ Accept(w, Routes, AnyCookie)

\* the session scenario: logins and requests on the list route
ServeSession(w) ==
    /\ accepted["/login"] + accepted["/api/v1/vehiclelists"] < SessionRequests
    /\ Accept(w, {"/login", "/api/v1/vehiclelists"}, AnyCookie)

\* the store scenario: a client logs in; requests come in on the record route
ServeStore(w) ==
    /\ Accept(w, { r \in {"/login"} : accepted[r] < StoreLogins }
                 \cup { r \in {"/api/v1/vehiclelist/record"} : accepted[r] < StoreRequests },
               AnyCookie)

\* no request is being served
AllIdle == \A v \in Workers : req[v].pc = "idle"

\* the serial scenario: clients that have logged in send their requests one
\* after the other, each when the one before has been answered; the lists
\* are read before the first request on the record route
ServeSerial(w) ==
    /\ AllIdle
    /\ Accept(w, { r \in {"/login"} : accepted[r] < SerialLogins }
                 \cup { r \in {"/api/v1/vehiclelist/record"} : accepted[r] < SerialRequests }
                 \cup { r \in {"/api/v1/vehiclelists"} :
                          /\ accepted[r] < SerialListReads
                          /\ accepted["/api/v1/vehiclelist/record"] = 0 },
               {Cookie(t) : t \in DOMAIN Tokens})

\* the contended scenario: a client logs in; requests on the list route and
\* on the record route come in while others are being served
ServeLive(w) ==
    /\ Accept(w, { r \in {"/login"} : accepted[r] < LiveLogins }
                 \cup { r \in {"/api/v1/vehiclelist/record"} : accepted[r] < LiveRequests }
                 \cup { r \in {"/api/v1/vehiclelists"} : accepted[r] < LiveListReads },
               AnyCookie)

\* time passes between the first login and the second
TickSerial ==
    /\ AllIdle
    /\ accepted["/login"] = 1
    /\ Tick

\* ------------------------------------------------------------ loginHandler
\* the method check and the decoding of the credentials
loginHandler(w) ==
    /\ NoneDone
    /\ req[w].pc = "loginHandler"
    /\ \E method \in Methods, body \in LoginBodies :
         req' = [req EXCEPT ![w] =
                   IF method # "POST"
                   THEN Fail([req[w] EXCEPT !.method = method],
                             StatusMethodNotAllowed, "Method not allowed")
                   ELSE IF DecodeCreds(body)
                   THEN Fail([req[w] EXCEPT !.method = method, !.body = body],
                             StatusBadRequest, "Bad request")
                   ELSE [req[w] EXCEPT !.method = method, !.body = body,
                                       !.pc = "loginID"]]
    /\ UNCHANGED <<now, tokenExpiry, Lists, Records, Tokens, mu, heap, accepted, committed, created, removed, issued>>
    /\ Observe(w)

\* id := time.Now().UnixNano()
loginID(w) ==
    /\ NoneDone
    /\ req[w].pc = "loginID"
    /\ req' = [req EXCEPT ![w] = [req[w] EXCEPT !.id = now, !.pc = "loginToken"]]
    /\ UNCHANGED <<now, tokenExpiry, Lists, Records, Tokens, mu, heap, accepted, committed, created, removed, issued>>
    /\ Observe(w)

\* token := generateToken(id), which reads the clock again
loginToken(w) ==
    /\ NoneDone
    /\ req[w].pc = "loginToken"
    /\ req' = [req EXCEPT ![w] =
                 [req[w] EXCEPT !.token = generateToken(req[w].id, now), !.pc = "loginExpiry"]]
    /\ UNCHANGED <<now, tokenExpiry, Lists, Records, Tokens, mu, heap, accepted, committed, created, removed, issued>>
    /\ Observe(w)

\* expiry := time.Now().Add(tokenExpiry)
loginExpiry(w) ==
    /\ NoneDone
    /\ req[w].pc = "loginExpiry"
    /\ req' = [req EXCEPT ![w] = [req[w] EXCEPT !.expiry = now + tokenExpiry, !.pc = "loginLock"]]
    /\ UNCHANGED <<now, tokenExpiry, Lists, Records, Tokens, mu, heap, accepted, committed, created, removed, issued>>
    /\ Observe(w)

\* storage.Lock(); storage.Tokens[token] = {expiry, id}
loginStore(w) ==
    /\ NoneDone
    /\ req[w].pc = "loginLock"
    /\ mu = 0
    /\ mu' = w
    /\ Tokens' = MapPut(Tokens, req[w].token, [Expiry |-> req[w].expiry, ID |-> req[w].id])
    /\ req' = [req EXCEPT ![w] = [req[w] EXCEPT !.pc = "loginUnlock"]]
    /\ UNCHANGED <<now, tokenExpiry, Lists, Records, heap, accepted, committed, created, removed, issued>>
    /\ Observe(w)

\* storage.Unlock()
loginUnlock(w) ==
    /\ NoneDone
    /\ req[w].pc = "loginUnlock"
    /\ mu = w
    /\ mu' = 0
    /\ req' = [req EXCEPT ![w] = [req[w] EXCEPT !.pc = "loginRespond"]]
    /\ UNCHANGED <<now, tokenExpiry, Lists, Records, Tokens, heap, accepted,
                   committed, created, removed, issued>>
    /\ Observe(w)

\* http.SetCookie(w, ...); the JSON answer
loginRespond(w) ==
    /\ NoneDone
    /\ req[w].pc = "loginRespond"
    /\ req' = [req EXCEPT ![w] =
                 [req[w] EXCEPT !.setCookie = Cookie(req[w].token), !.cookieExpires = req[w].expiry,
                           !.status = StatusOK, !.pc = "done"]]
    /\ issued' = Append(issued, [id |-> req[w].id, token |-> req[w].token])
    /\ UNCHANGED <<now, tokenExpiry, Lists, Records, Tokens, mu, heap, accepted,
                   committed, created, removed>>
    /\ Observe(w)

\* --------------------------------------------------------- tokenMiddleware
\* r.Cookie("s"); storage.Lock(); data, exists := storage.Tokens[cookie.Value]
tokenMiddleware(w) ==
    /\ NoneDone
    /\ req[w].pc = "tokenMiddleware"
    /\ IF ~req[w].cookie.present
       THEN /\ req' = [req EXCEPT ![w] = Fail(req[w], StatusUnauthorized, "Unauthorized")]
            /\ mu' = mu
       ELSE /\ mu = 0
            /\ mu' = w
            /\ req' = [req EXCEPT ![w] =
                         [req[w] EXCEPT !.exists = req[w].cookie.value \in DOMAIN Tokens,
                                   !.data = IF req[w].cookie.value \in DOMAIN Tokens
                                            THEN Tokens[req[w].cookie.value] ELSE NoData,
                                   !.pc = "tokenUnlock"]]
    /\ UNCHANGED <<now, tokenExpiry, Lists, Records, Tokens, heap, accepted, committed, created, removed, issued>>
    /\ Observe(w)

\* storage.Unlock()
tokenUnlock(w) ==
    /\ NoneDone
    /\ req[w].pc = "tokenUnlock"
    /\ mu = w
    /\ mu' = 0
    /\ req' = [req EXCEPT ![w] = [req[w] EXCEPT !.pc = "tokenCheck"]]
    /\ UNCHANGED <<now, tokenExpiry, Lists, Records, Tokens, heap, accepted, committed, created, removed, issued>>
    /\ Observe(w)

\* a comparison that also rejects a token at the instant of its expiry
AfterOrEqual(t, u) == t >= u

\* time.Time.After
After(t, u) == t > u

\* a registration of the record route without recordMiddleware
NextOfTokenUnscoped(route) ==
    IF route = "/api/v1/vehiclelists" THEN "vehicleListsHandler" ELSE "recordHandler"

\* the handler a protected route wraps in tokenMiddleware
NextOfToken(route) ==
    IF route = "/api/v1/vehiclelists" THEN "vehicleListsHandler" ELSE "recordMiddleware"

\* if !exists || time.Now().After(data.Expiry) { 401 }; else on to next
tokenCheck(w) ==
    /\ NoneDone
    /\ req[w].pc = "tokenCheck"
    /\ req' = [req EXCEPT ![w] =
                 IF ~req[w].exists \/ After(now, req[w].data.Expiry)
                 THEN Fail(req[w], StatusUnauthorized, "Unauthorized")
                 ELSE [req[w] EXCEPT !.userID = FormatInt(req[w].data.ID),
                                     !.authed = TRUE,
                                     !.pc = NextOfToken(req[w].route)]]
    /\ UNCHANGED <<now, tokenExpiry, Lists, Records, Tokens, mu, heap, accepted, committed, created, removed, issued>>
    /\ Observe(w)

\* ----------------------------------------------------- vehicleListsHandler
\* a loop that visits no key
OrdersNone(m) == { <<>> }

\* orders in which ranging over a map may visit its keys
Orders(m) ==
    { o \in [1..Cardinality(DOMAIN m) -> DOMAIN m] :
        \A a, b \in 1..Cardinality(DOMAIN m) : a # b => o[a] # o[b] }

\* the method check; storage.Lock(); the loop over storage.Lists
vehicleListsHandler(w) ==
    /\ NoneDone
    /\ req[w].pc = "vehicleListsHandler"
    /\ \E method \in Methods :
         IF method # "GET"
         THEN /\ req' = [req EXCEPT ![w] =
                           Fail([req[w] EXCEPT !.method = method],
                                StatusMethodNotAllowed, "Method not allowed")]
              /\ mu' = mu
         ELSE /\ mu = 0
              /\ mu' = w
              /\ \E o \in Orders(Lists) :
                   req' = [req EXCEPT ![w] =
                             [req[w] EXCEPT !.method = method,
                                            !.lists = [k \in 1..Len(o) |-> Lists[o[k]]],
                                            !.pc = "listsUnlock"]]
    /\ UNCHANGED <<now, tokenExpiry, Lists, Records, Tokens, heap, accepted, committed, created, removed, issued>>
    /\ Observe(w)

\* storage.Unlock(); the JSON answer
listsUnlock(w) ==
    /\ NoneDone
    /\ req[w].pc = "listsUnlock"
    /\ mu = w
    /\ mu' = 0
    /\ req' = [req EXCEPT ![w] = [req[w] EXCEPT !.totalCount = Len(req[w].lists),
                                                !.status = StatusOK, !.pc = "done"]]
    /\ UNCHANGED <<now, tokenExpiry, Lists, Records, Tokens, heap, accepted, committed, created, removed, issued>>
    /\ Observe(w)


\* a middleware that scopes the request to a list of the token's owner
recordMiddlewareByOwner(w) ==
    /\ NoneDone
    /\ req[w].pc = "recordMiddleware"
    /\ \E q \in Queries("id") :
         LET idStr == QueryGet(q, "id")
             p     == ParseInt(idStr)
         IN  req' = [req EXCEPT ![w] =
                       IF idStr = <<>>
                       THEN Fail([req[w] EXCEPT !.idStr = idStr],
                                 StatusBadRequest, "Missing id parameter")
                       ELSE IF p.err # "nil"
                       THEN Fail([req[w] EXCEPT !.idStr = idStr],
                                 StatusBadRequest, "Invalid id parameter")
                       ELSE [req[w] EXCEPT !.idStr = idStr,
                                           !.ctx = contextWithID(req[w].ctx,
                                                                 p.val + req[w].data.ID),
                                           !.scoped = req[w].scoped + 1,
                                           !.pc = "recordHandler"]]
    /\ UNCHANGED <<now, tokenExpiry, Lists, Records, Tokens, mu, heap, accepted,
                   committed, created, removed, issued>>
    /\ Observe(w)

\* -------------------------------------------------------- recordMiddleware
\* the id parameter, parsed and put into the request's context
recordMiddleware(w) ==
    /\ NoneDone
    /\ req[w].pc = "recordMiddleware"
    /\ \E q \in Queries("id") :
         LET idStr == QueryGet(q, "id")
             p     == ParseInt(idStr)
         IN  req' = [req EXCEPT ![w] =
                       IF idStr = <<>>
                       THEN Fail([req[w] EXCEPT !.idStr = idStr],
                                 StatusBadRequest, "Missing id parameter")
                       ELSE IF p.err # "nil"
                       THEN Fail([req[w] EXCEPT !.idStr = idStr],
                                 StatusBadRequest, "Invalid id parameter")
                       ELSE [req[w] EXCEPT !.idStr = idStr,
                                           !.ctx = contextWithID(req[w].ctx, p.val),
                                           !.scoped = req[w].scoped + 1,
                                           !.pc = "recordHandler"]]
    /\ UNCHANGED <<now, tokenExpiry, Lists, Records, Tokens, mu, heap, accepted,
                   committed, created, removed, issued>>
    /\ Observe(w)

\* ----------------------------------------------------------- recordHandler
\* the switch on r.Method, and what the chosen handler does before it
\* takes the lock: handleGetRecord reads the context; handlePostRecord also
\* decodes the body; handleDeleteRecord also parses recordId
recordHandler(w) ==
    /\ NoneDone
    /\ req[w].pc = "recordHandler"
    /\ LET id == contextID(req[w].ctx)
       IN  \/ /\ req' = [req EXCEPT ![w] =
                           [req[w] EXCEPT !.method = "GET", !.id = id, !.pc = "getLock"]]
           \/ /\ \E body \in RecordBodies :
                   LET d == DecodeRecord(body)
                   IN  req' = [req EXCEPT ![w] =
                                 IF d.err
                                 THEN Fail([req[w] EXCEPT !.method = "POST", !.id = id,
                                                          !.body = body],
                                           StatusBadRequest, "Bad request")
                                 ELSE [req[w] EXCEPT !.method = "POST", !.id = id,
                                                     !.body = body,
                                                     !.record = d.record,
                                                     !.pc = "postLock"]]
           \/ /\ \E q \in Queries("recordId") :
                   LET recordIDStr == QueryGet(q, "recordId")
                       p           == ParseInt(recordIDStr)
                   IN  req' = [req EXCEPT ![w] =
                                 IF recordIDStr = <<>>
                                 THEN Fail([req[w] EXCEPT !.method = "DELETE", !.id = id,
                                                          !.recordIDStr = recordIDStr],
                                           StatusBadRequest, "Missing recordId parameter")
                                 ELSE IF p.err # "nil"
                                 THEN Fail([req[w] EXCEPT !.method = "DELETE", !.id = id,
                                                          !.recordIDStr = recordIDStr],
                                           StatusBadRequest, "Invalid recordId parameter")
                                 ELSE [req[w] EXCEPT !.method = "DELETE", !.id = id,
                                                     !.recordIDStr = recordIDStr,
                                                     !.recordID = p.val,
                                                     !.pc = "deleteLock"]]
           \/ /\ \E method \in Methods \ {"GET", "POST", "DELETE"} :
                   req' = [req EXCEPT ![w] =
                             Fail([req[w] EXCEPT !.method = method],
                                  StatusMethodNotAllowed, "Method not allowed")]
    /\ UNCHANGED <<now, tokenExpiry, Lists, Records, Tokens, mu, heap, accepted,
                   committed, created, removed, issued>>
    /\ Observe(w)

\* storage.Records[id] with the comma-ok of a map read
Lookup(id) == IF id \in DOMAIN Records THEN Records[id] ELSE NilSlice

\* --------------------------------------------------------- handleGetRecord
\* storage.Lock(); records, exists := storage.Records[id]
getLock(w) ==
    /\ NoneDone
    /\ req[w].pc = "getLock"
    /\ mu = 0
    /\ mu' = w
    /\ req' = [req EXCEPT ![w] =
                 [req[w] EXCEPT !.records = Lookup(req[w].id),
                                !.exists = req[w].id \in DOMAIN Records,
                                !.view = SliceSeq(Lookup(req[w].id), heap),
                                !.pc = "getUnlock"]]
    /\ UNCHANGED <<now, tokenExpiry, Lists, Records, Tokens, heap, accepted,
                   committed, created, removed, issued>>
    /\ Observe(w)

\* storage.Unlock(); 404 when the list has no entry
getUnlock(w) ==
    /\ NoneDone
    /\ req[w].pc = "getUnlock"
    /\ mu = w
    /\ mu' = 0
    /\ req' = [req EXCEPT ![w] =
                 IF ~req[w].exists
                 THEN Fail(req[w], StatusNotFound, "List not found")
                 ELSE [req[w] EXCEPT !.i = 0,
                                     !.entries = [null |-> req[w].records.arr = 0,
                                                  items |-> <<>>],
                                     !.pc = "getEncode"]]
    /\ UNCHANGED <<now, tokenExpiry, Lists, Records, Tokens, heap, accepted,
                   committed, created, removed, issued>>
    /\ Observe(w)

\* json.NewEncoder(w).Encode(response): the encoder reads the elements of
\* `records` one after the other from the backing array, without the lock
getEncode(w) ==
    /\ NoneDone
    /\ req[w].pc = "getEncode"
    /\ req' = [req EXCEPT ![w] =
                 IF req[w].i < req[w].records.len
                 THEN [req[w] EXCEPT
                         !.entries.items =
                             Append(req[w].entries.items,
                                    EncodeRecord(heap[req[w].records.arr][req[w].i + 1])),
                         !.i = req[w].i + 1]
                 ELSE [req[w] EXCEPT !.status = StatusOK, !.pc = "done"]]
    /\ UNCHANGED <<now, tokenExpiry, Lists, Records, Tokens, mu, heap, accepted,
                   committed, created, removed, issued>>
    /\ Observe(w)

\* -------------------------------------------------------- handlePostRecord
\* storage.Lock(); storage.Records[id] = append(storage.Records[id], record)
postLock(w) ==
    /\ NoneDone
    /\ req[w].pc = "postLock"
    /\ mu = 0
    /\ mu' = w
    /\ LET a == SliceAppend(Lookup(req[w].id), req[w].record, heap)
       IN  /\ Records' = MapPut(Records, req[w].id, a.slice)
           /\ heap' = a.heap
           /\ committed' = MapPut(committed, req[w].id, SliceSeq(a.slice, a.heap))
    /\ req' = [req EXCEPT ![w] = [req[w] EXCEPT !.pc = "postUnlock"]]
    /\ UNCHANGED <<now, tokenExpiry, Lists, Tokens, accepted,
                   created, removed, issued>>
    /\ Observe(w)

BagOf(m, id) == IF id \in DOMAIN m THEN m[id] ELSE EmptyBag

\* storage.Unlock(); w.WriteHeader(http.StatusCreated)
postUnlock(w) ==
    /\ NoneDone
    /\ req[w].pc = "postUnlock"
    /\ mu = w
    /\ mu' = 0
    /\ req' = [req EXCEPT ![w] = [req[w] EXCEPT !.status = StatusCreated, !.pc = "done"]]
    /\ created' = MapPut(created, req[w].id,
                         BagOf(created, req[w].id) (+) SetToBag({req[w].record}))
    /\ UNCHANGED <<now, tokenExpiry, Lists, Records, Tokens, heap, accepted,
                   committed, removed, issued>>
    /\ Observe(w)

\* ------------------------------------------------------ handleDeleteRecord
\* storage.Lock(); the map read; the loop that looks for rec.ID == recordID
deleteLock(w) ==
    /\ NoneDone
    /\ req[w].pc = "deleteLock"
    /\ mu = 0
    /\ mu' = w
    /\ LET records == Lookup(req[w].id)
           exists  == req[w].id \in DOMAIN Records
           i       == FirstIndex(records, heap, req[w].recordID)
       IN  req' = [req EXCEPT ![w] =
                     IF ~exists
                     THEN [req[w] EXCEPT !.records = records, !.exists = FALSE,
                                         !.pc = "deleteNoList"]
                     ELSE IF i < 0
                     THEN [req[w] EXCEPT !.records = records, !.exists = TRUE,
                                         !.pc = "deleteNoRecord"]
                     ELSE [req[w] EXCEPT !.records = records, !.exists = TRUE,
                                         !.i = i, !.j = i,
                                         !.record = heap[records.arr][i + 1],
                                         !.pc = "deleteShift"]]
    /\ UNCHANGED <<now, tokenExpiry, Lists, Records, Tokens, heap, accepted,
                   committed, created, removed, issued>>
    /\ Observe(w)

\* storage.Unlock(); 404: the list has no entry
deleteNoList(w) ==
    /\ NoneDone
    /\ req[w].pc = "deleteNoList"
    /\ mu = w
    /\ mu' = 0
    /\ req' = [req EXCEPT ![w] = Fail(req[w], StatusNotFound, "List not found")]
    /\ UNCHANGED <<now, tokenExpiry, Lists, Records, Tokens, heap, accepted,
                   committed, created, removed, issued>>
    /\ Observe(w)

\* an exit that answers without releasing the lock
deleteNoRecordLocked(w) ==
    /\ NoneDone
    /\ req[w].pc = "deleteNoRecord"
    /\ mu = w
    /\ req' = [req EXCEPT ![w] = Fail(req[w], StatusNotFound, "Record not found")]
    /\ UNCHANGED <<now, tokenExpiry, Lists, Records, Tokens, mu, heap, accepted,
                   committed, created, removed, issued>>
    /\ Observe(w)

\* storage.Unlock(); 404: the loop found no record
deleteNoRecord(w) ==
    /\ NoneDone
    /\ req[w].pc = "deleteNoRecord"
    /\ mu = w
    /\ mu' = 0
    /\ req' = [req EXCEPT ![w] = Fail(req[w], StatusNotFound, "Record not found")]
    /\ UNCHANGED <<now, tokenExpiry, Lists, Records, Tokens, heap, accepted,
                   committed, created, removed, issued>>
    /\ Observe(w)

\* a shift that copies in the wrong direction
deleteShiftUp(w) ==
    /\ NoneDone
    /\ req[w].pc = "deleteShift"
    /\ req[w].j < req[w].records.len - 1
    /\ heap' = [heap EXCEPT ![req[w].records.arr][req[w].j + 2] =
                               heap[req[w].records.arr][req[w].j + 1]]
    /\ req' = [req EXCEPT ![w] = [req[w] EXCEPT !.j = req[w].j + 1]]
    /\ UNCHANGED <<now, tokenExpiry, Lists, Records, Tokens, mu, accepted,
                   committed, created, removed, issued>>
    /\ Observe(w)

\* append(records[:i], records[i+1:]...) moves the elements behind i one
\* place down inside the backing array, one element after the other
deleteShift(w) ==
    /\ NoneDone
    /\ req[w].pc = "deleteShift"
    /\ req[w].j < req[w].records.len - 1
    /\ heap' = [heap EXCEPT ![req[w].records.arr][req[w].j + 1] =
                               heap[req[w].records.arr][req[w].j + 2]]
    /\ req' = [req EXCEPT ![w] = [req[w] EXCEPT !.j = req[w].j + 1]]
    /\ UNCHANGED <<now, tokenExpiry, Lists, Records, Tokens, mu, accepted,
                   committed, created, removed, issued>>
    /\ Observe(w)

\* storage.Records[id] = the shortened slice; storage.Unlock(); 200
deleteStore(w) ==
    /\ NoneDone
    /\ req[w].pc = "deleteShift"
    /\ req[w].j = req[w].records.len - 1
    /\ mu = w
    /\ mu' = 0
    /\ LET short == [req[w].records EXCEPT !.len = req[w].records.len - 1]
       IN  /\ Records' = MapPut(Records, req[w].id, short)
           /\ committed' = MapPut(committed, req[w].id, SliceSeq(short, heap))
    /\ removed' = MapPut(removed, req[w].id,
                         BagOf(removed, req[w].id) (+) SetToBag({req[w].record}))
    /\ req' = [req EXCEPT ![w] = [req[w] EXCEPT !.status = StatusOK, !.pc = "done"]]
    /\ UNCHANGED <<now, tokenExpiry, Lists, Tokens, heap, accepted,
                   created, issued>>
    /\ Observe(w)

\* ------------------------------------------------------------ specification
Next ==
    \/ Tick
    \/ \E w \in Workers : Serve(w)
    \/ \E w \in Workers : Finish(w)
    \/ \E w \in Workers : loginHandler(w)
    \/ \E w \in Workers : loginID(w)
    \/ \E w \in Workers : loginToken(w)
    \/ \E w \in Workers : loginExpiry(w)
    \/ \E w \in Workers : loginStore(w)
    \/ \E w \in Workers : loginUnlock(w)
    \/ \E w \in Workers : loginRespond(w)
    \/ \E w \in Workers : tokenMiddleware(w)
    \/ \E w \in Workers : tokenUnlock(w)
    \/ \E w \in Workers : tokenCheck(w)
    \/ \E w \in Workers : vehicleListsHandler(w)
    \/ \E w \in Workers : listsUnlock(w)
    \/ \E w \in Workers : recordMiddleware(w)
    \/ \E w \in Workers : recordHandler(w)
    \/ \E w \in Workers : getLock(w)
    \/ \E w \in Workers : getUnlock(w)
    \/ \E w \in Workers : getEncode(w)
    \/ \E w \in Workers : postLock(w)
    \/ \E w \in Workers : postUnlock(w)
    \/ \E w \in Workers : deleteLock(w)
    \/ \E w \in Workers : deleteNoList(w)
    \/ \E w \in Workers : deleteNoRecord(w)
    \/ \E w \in Workers : deleteShift(w)
    \/ \E w \in Workers : deleteStore(w)

Spec == Init /\ [][Next]_vars

NextSession ==
    \/ Tick
    \/ \E w \in Workers : ServeSession(w)
    \/ \E w \in Workers : Finish(w)
    \/ \E w \in Workers : loginHandler(w)
    \/ \E w \in Workers : loginID(w)
    \/ \E w \in Workers : loginToken(w)
    \/ \E w \in Workers : loginExpiry(w)
    \/ \E w \in Workers : loginStore(w)
    \/ \E w \in Workers : loginUnlock(w)
    \/ \E w \in Workers : loginRespond(w)
    \/ \E w \in Workers : tokenMiddleware(w)
    \/ \E w \in Workers : tokenUnlock(w)
    \/ \E w \in Workers : tokenCheck(w)
    \/ \E w \in Workers : vehicleListsHandler(w)
    \/ \E w \in Workers : listsUnlock(w)

\* the session scenario: clients log in and read the lists while time passes
SpecSession == Init /\ [][NextSession]_vars

\* the server started with the built-in defaults and holds one vehicle list
InitStore == Init /\ tokenExpiry = defaultExpiry /\ Lists # EmptyMap

NextStore ==
    \/ \E w \in Workers : ServeStore(w)
    \/ \E w \in Workers : Finish(w)
    \/ \E w \in Workers : loginHandler(w)
    \/ \E w \in Workers : loginID(w)
    \/ \E w \in Workers : loginToken(w)
    \/ \E w \in Workers : loginExpiry(w)
    \/ \E w \in Workers : loginStore(w)
    \/ \E w \in Workers : loginUnlock(w)
    \/ \E w \in Workers : loginRespond(w)
    \/ \E w \in Workers : tokenMiddleware(w)
    \/ \E w \in Workers : tokenUnlock(w)
    \/ \E w \in Workers : tokenCheck(w)
    \/ \E w \in Workers : recordMiddleware(w)
    \/ \E w \in Workers : recordHandler(w)
    \/ \E w \in Workers : getLock(w)
    \/ \E w \in Workers : getUnlock(w)
    \/ \E w \in Workers : getEncode(w)
    \/ \E w \in Workers : postLock(w)
    \/ \E w \in Workers : postUnlock(w)
    \/ \E w \in Workers : deleteLock(w)
    \/ \E w \in Workers : deleteNoList(w)
    \/ \E w \in Workers : deleteNoRecord(w)
    \/ \E w \in Workers : deleteShift(w)
    \/ \E w \in Workers : deleteStore(w)

\* the store scenario: within one minute, a client that has logged in works
\* on the record route of a server started with the built-in defaults
SpecStore == InitStore /\ [][NextStore]_vars

\* a server started with the built-in defaults that holds one vehicle list;
\* a trail of the answered requests is kept
InitSerial == InitWith(TrailOn) /\ tokenExpiry = defaultExpiry /\ Lists # EmptyMap

\* the requests of the serial scenario are well-formed: a login is a POST
\* with credentials, a request on the record route names list 1, a create
\* has a record as its body and a delete names a record id
loginHandlerSerial(w) == loginHandler(w) /\ req'[w].pc = "loginID"
recordMiddlewareSerial(w) == recordMiddleware(w) /\ req'[w].idStr = <<"1">>
recordHandlerSerial(w) == recordHandler(w) /\ req'[w].status # StatusBadRequest

NextSerial ==
    \/ TickSerial
    \/ \E w \in Workers : ServeSerial(w)
    \/ \E w \in Workers : Finish(w)
    \/ \E w \in Workers : loginHandlerSerial(w)
    \/ \E w \in Workers : loginID(w)
    \/ \E w \in Workers : loginToken(w)
    \/ \E w \in Workers : loginExpiry(w)
    \/ \E w \in Workers : loginStore(w)
    \/ \E w \in Workers : loginUnlock(w)
    \/ \E w \in Workers : loginRespond(w)
    \/ \E w \in Workers : tokenMiddleware(w)
    \/ \E w \in Workers : tokenUnlock(w)
    \/ \E w \in Workers : tokenCheck(w)
    \/ \E w \in Workers : vehicleListsHandler(w)
    \/ \E w \in Workers : listsUnlock(w)
    \/ \E w \in Workers : recordMiddlewareSerial(w)
    \/ \E w \in Workers : recordHandlerSerial(w)
    \/ \E w \in Workers : getLock(w)
    \/ \E w \in Workers : getUnlock(w)
    \/ \E w \in Workers : getEncode(w)
    \/ \E w \in Workers : postLock(w)
    \/ \E w \in Workers : postUnlock(w)
    \/ \E w \in Workers : deleteLock(w)
    \/ \E w \in Workers : deleteNoList(w)
    \/ \E w \in Workers : deleteNoRecord(w)
    \/ \E w \in Workers : deleteShift(w)
    \/ \E w \in Workers : deleteStore(w)

\* the serial scenario: every handler of the server, one request at a time
SpecSerial == InitSerial /\ [][NextSerial]_vars

\* one step of the handler that worker w runs, up to the delivery of its answer
Step(w) ==
    \/ loginHandlerSerial(w) \/ loginID(w) \/ loginToken(w) \/ loginExpiry(w)
    \/ loginUnlock(w) \/ loginRespond(w)
    \/ tokenUnlock(w) \/ tokenCheck(w)
    \/ listsUnlock(w)
    \/ recordMiddlewareSerial(w) \/ recordHandlerSerial(w)
    \/ getUnlock(w) \/ getEncode(w)
    \/ postUnlock(w)
    \/ deleteNoList(w) \/ deleteNoRecord(w) \/ deleteShift(w) \/ deleteStore(w)
    \/ Finish(w)

\* storage.Lock() of the handler that worker w runs
Acquire(w) ==
    \/ loginStore(w) \/ tokenMiddleware(w) \/ vehicleListsHandler(w)
    \/ getLock(w) \/ postLock(w) \/ deleteLock(w)

NextLive ==
    \/ \E w \in Workers : ServeLive(w)
    \/ \E w \in Workers : Finish(w)
    \/ \E w \in Workers : loginHandlerSerial(w)
    \/ \E w \in Workers : loginID(w)
    \/ \E w \in Workers : loginToken(w)
    \/ \E w \in Workers : loginExpiry(w)
    \/ \E w \in Workers : loginStore(w)
    \/ \E w \in Workers : loginUnlock(w)
    \/ \E w \in Workers : loginRespond(w)
    \/ \E w \in Workers : tokenMiddleware(w)
    \/ \E w \in Workers : tokenUnlock(w)
    \/ \E w \in Workers : tokenCheck(w)
    \/ \E w \in Workers : vehicleListsHandler(w)
    \/ \E w \in Workers : listsUnlock(w)
    \/ \E w \in Workers : recordMiddlewareSerial(w)
    \/ \E w \in Workers : recordHandlerSerial(w)
    \/ \E w \in Workers : getLock(w)
    \/ \E w \in Workers : getUnlock(w)
    \/ \E w \in Workers : getEncode(w)
    \/ \E w \in Workers : postLock(w)
    \/ \E w \in Workers : postUnlock(w)
    \/ \E w \in Workers : deleteLock(w)
    \/ \E w \in Workers : deleteNoList(w)
    \/ \E w \in Workers : deleteNoRecord(w)
    \/ \E w \in Workers : deleteShift(w)
    \/ \E w \in Workers : deleteStore(w)

\* the scheduler runs every goroutine that can take a step, and the mutex is
\* handed to every goroutine that keeps asking for it
Fairness ==
    \A w \in Workers : WF_vars(Step(w)) /\ SF_vars(Acquire(w))

\* the contended scenario: every handler of the server under fair scheduling,
\* serving well-formed requests
SpecLive == InitStore /\ [][NextLive]_vars /\ Fairness

\* ------------------------------------------------------------------ claims
\* the step's worker w leaves the session middleware: it answers, or it
\* hands the request to the next stage
LeavesTokenMiddleware(w) ==
    /\ req[w].pc \in {"tokenMiddleware", "tokenCheck"}
    /\ req'[w].pc \notin {"tokenMiddleware", "tokenUnlock", "tokenCheck"}

\* C1: the session middleware hands a request to the next stage if and only
\* if the request carries cookie "s", the guarded lookup found the cookie's
\* value among the keys of Tokens, and the clock read at the check is not
\* after the expiry stored under that key; in every other case it answers
\* 401 and the next stage is not invoked.
C1_TokenGate ==
    [][\A w \in Workers :
         /\ (req[w].pc = "tokenMiddleware" /\ req'[w].pc = "tokenUnlock")
              => /\ req'[w].exists = (req[w].cookie.value \in DOMAIN Tokens)
                 /\ req'[w].exists => req'[w].data = Tokens[req[w].cookie.value]
         /\ LeavesTokenMiddleware(w)
              => IF /\ req[w].cookie.present
                    /\ req[w].exists
                    /\ now <= req[w].data.Expiry
                 THEN /\ req'[w].pc = NextOfToken(req[w].route)
                      /\ req'[w].authed
                      /\ req'[w].status = 0
                 ELSE /\ req'[w].pc = "done"
                      /\ req'[w].status = StatusUnauthorized
                      /\ ~req'[w].authed]_vars

\* a request whose token is known but expired has been answered 401
C1_Witness ==
    \E w \in Workers :
        /\ req[w].pc = "done"
        /\ req[w].status = StatusUnauthorized
        /\ req[w].cookie.present
        /\ req[w].exists
        /\ now > req[w].data.Expiry

\* C4: the logins that answered 200 have pairwise distinct owner ids and
\* pairwise distinct tokens, and each token resolves in Tokens to the owner
\* id of its login.
C4_DistinctOwners ==
    /\ \A k \in 1..Len(issued) :
          /\ issued[k].token \in DOMAIN Tokens
          /\ Tokens[issued[k].token].ID = issued[k].id
    /\ \A k, m \in 1..Len(issued) :
          k # m => /\ issued[k].id # issued[m].id
                   /\ issued[k].token # issued[m].token


\* ---- helpers of the claims about the record store

\* the records a client reads back from the entries of a Get Records answer
DecodeEntries(e) == [k \in 1..Len(e.items) |-> DecodeRecord(JSONObject(e.items[k])).record]

\* worker w has answered a request that reached the given terminal handler
Answered(w, method) ==
    /\ req[w].pc = "done"
    /\ req[w].route = "/api/v1/vehiclelist/record"
    /\ req[w].method = method
    /\ req[w].scoped = 1

\* the sequence the store holds for list L right now
Stored(L) == SliceSeq(Records[L], heap)

SeqToBag(q) == [r \in {q[k] : k \in 1..Len(q)} |-> Cardinality({k \in 1..Len(q) : q[k] = r})]

\* q without its first element whose ID is k
RemoveFirst(q, k) ==
    LET i == CHOOSE n \in 1..Len(q) : q[n].ID = k /\ \A m \in 1..(n - 1) : q[m].ID # k
    IN  SubSeq(q, 1, i - 1) \o SubSeq(q, i + 1, Len(q))

\* what the texts sent as id and recordId denote: a text outside the domain
\* is no signed 64-bit decimal integer (the last of ParamStrings is 1<<63)
Int64Of == (<<"1">> :> 1) @@ (<<"+", "2">> :> 2)

\* C2: what Get Records returns for list L is a sequence the store held for
\* L at one instant between the start of the request and its answer (or,
\* for a 404, the store had no entry for L at such an instant).
C2_ReadIsSnapshot ==
    \A w \in Workers :
        (Answered(w, "GET") /\ req[w].status \in {StatusOK, StatusNotFound})
          => \E m \in obs[w].held :
                IF req[w].status = StatusNotFound THEN req[w].id \notin DOMAIN m
                ELSE /\ req[w].id \in DOMAIN m
                     /\ ~req[w].entries.null
                     /\ DecodeEntries(req[w].entries) = m[req[w].id]

\* C3: when every Create Record on list L has been answered, their records
\* have pairwise distinct ids and no Delete Record has worked on L, the
\* sequence of L holds exactly the created records, each once.
C3_NoLostCreate ==
    \A L \in DOMAIN created :
        ( /\ \A w \in Workers : ~(req[w].id = L /\ req[w].pc \in {"postUnlock", "deleteShift"})
          /\ L \notin DOMAIN removed
          /\ \A r1, r2 \in DOMAIN created[L] : r1.ID = r2.ID => r1 = r2
          /\ \A r \in DOMAIN created[L] : created[L][r] = 1 )
        => SeqToBag(Stored(L)) = created[L]

\* two creates on one list, with distinct record ids, ran at the same time
\* and both have been answered 201
C3_Witness ==
    \E w \in Workers :
        /\ Answered(w, "POST")
        /\ req[w].status = StatusCreated
        /\ Cardinality(obs[w].held) = 3
        /\ req[w].id \in DOMAIN created
        /\ Cardinality({r.ID : r \in DOMAIN created[req[w].id]}) = 2
        /\ req[w].id \notin DOMAIN removed
        /\ C3_NoLostCreate


\* C5: a Delete Record on list L with recordId k succeeds exactly when L has
\* an entry holding a record with id k; it then answers 200, L's sequence is
\* the previous one without its first record of id k (the others keep
\* their order, later records of id k included), and no other list's
\* sequence, nor the set of lists that have an entry, changes.
C5_DeleteRemovesFirst ==
    [][\A w \in Workers :
         LET L == req[w].id
             k == req[w].recordID
         IN  /\ (req[w].pc = "deleteLock" /\ req'[w].pc # "deleteLock")
                  => /\ committed = [M \in DOMAIN Records |-> Stored(M)]
                     /\ (req'[w].pc = "deleteShift")
                          = (/\ L \in DOMAIN committed
                             /\ \E n \in 1..Len(committed[L]) : committed[L][n].ID = k)
             /\ (req[w].pc = "deleteShift" /\ req'[w].pc = "done")
                  => /\ req'[w].status = StatusOK
                     /\ DOMAIN Records' = DOMAIN Records
                     /\ SliceSeq(Records'[L], heap') = RemoveFirst(committed[L], k)
                     /\ \A M \in DOMAIN Records' \ {L} :
                          SliceSeq(Records'[M], heap') = committed[M]
                     /\ Lists' = Lists]_vars

\* a delete answered 200 that left behind a later record with the same id
C5_Witness ==
    \E w \in Workers :
        /\ Answered(w, "DELETE")
        /\ req[w].status = StatusOK
        /\ \E n \in 1..Len(Stored(req[w].id)) :
             /\ Stored(req[w].id)[n].ID = req[w].recordID
             /\ Stored(req[w].id)[n] # req[w].record

\* C6: a Delete Record answers 400 when recordId is missing or no 64-bit
\* integer, 404 when the list has no entry, 404 when the list has an entry
\* but no record of that id; a delete that fails has changed nothing in
\* Records, Lists or Tokens.
C6_FailedDeleteKeepsStore ==
    [][\A w \in Workers :
         LET L == req[w].id
             k == req[w].recordID
         IN  /\ (req[w].pc = "recordHandler" /\ req'[w].method = "DELETE")
                  => IF req'[w].recordIDStr \in DOMAIN Int64Of
                     THEN /\ req'[w].pc = "deleteLock"
                          /\ req'[w].recordID = Int64Of[req'[w].recordIDStr]
                     ELSE /\ req'[w].pc = "done"
                          /\ req'[w].status = StatusBadRequest
             /\ (req[w].pc = "deleteLock" /\ req'[w].pc # "deleteLock")
                  => /\ (req'[w].pc = "deleteNoList") = (L \notin DOMAIN Records)
                     /\ (req'[w].pc = "deleteNoRecord")
                          = (/\ L \in DOMAIN Records
                             /\ \A n \in 1..Len(Stored(L)) : Stored(L)[n].ID # k)
             /\ (req[w].pc \in {"deleteNoList", "deleteNoRecord"} /\ req'[w].pc = "done")
                  => /\ req'[w].status = StatusNotFound
                     /\ <<Lists, Records, Tokens, heap>>' = <<Lists, Records, Tokens, heap>>
             /\ (req'[w].pc = "done" /\ req'[w].method = "DELETE"
                   /\ req'[w].status # StatusOK)
                  => ~obs'[w].touched]_vars

\* a delete answered 404 for a list that has records, none of the given id
C6_Witness ==
    \E w \in Workers :
        /\ Answered(w, "DELETE")
        /\ req[w].status = StatusNotFound
        /\ req[w].text = "Record not found"
        /\ req[w].id \in DOMAIN Records
        /\ Len(Stored(req[w].id)) > 0
        /\ ~obs[w].touched

\* C7: Get Records for list L answers 404 exactly when L has no entry in
\* Records when the handler looks it up; when L has an entry it answers 200
\* with the entries equal, in order, to a sequence L had while the request
\* ran (an empty sequence gives an empty array, not null); the read changes
\* nothing in the store.
C7_GetAnswer ==
    [][\A w \in Workers :
         /\ (req[w].pc = "getLock" /\ req'[w].pc = "getUnlock")
              => /\ req'[w].exists = (req[w].id \in DOMAIN committed)
                 /\ req'[w].exists => req'[w].view = committed[req[w].id]
         /\ (req[w].pc \in {"getUnlock", "getEncode"} /\ req'[w].pc = "done")
              => /\ (req'[w].status = StatusNotFound) = ~req[w].exists
                 /\ req[w].exists
                      => /\ req'[w].status = StatusOK
                         /\ ~req'[w].entries.null
                         /\ \E m \in obs'[w].held :
                              /\ req[w].id \in DOMAIN m
                              /\ DecodeEntries(req'[w].entries) = m[req[w].id]
                 /\ ~obs'[w].touched]_vars


\* no other request did anything to the list of worker w's request while
\* that request ran
Undisturbed(w) ==
    /\ Cardinality(obs'[w].held) = 1
    /\ \A v \in Workers \ {w} : ~(req[v].pc = "deleteShift" /\ req[v].id = req[w].id)

\* C8: a Create Record on list L with a well-formed record r makes L's
\* sequence its previous sequence (none when L had no entry) with r appended,
\* and answers 201; a Get Records on L that no other operation
\* interferes with returns L's sequence with every field of every record as
\* it was sent.
C8_CreateThenGet ==
    [][\A w \in Workers :
         LET L == req[w].id
         IN  /\ (req[w].pc = "postLock" /\ req'[w].pc = "postUnlock")
                  => /\ L \in DOMAIN Records'
                     /\ SliceSeq(Records'[L], heap')
                          = Append(IF L \in DOMAIN Records THEN Stored(L) ELSE <<>>,
                                   req[w].record)
                     /\ committed' = [M \in DOMAIN Records' |-> SliceSeq(Records'[M], heap')]
             /\ (req[w].pc = "postUnlock" /\ req'[w].pc = "done")
                  => req'[w].status = StatusCreated
             /\ (req[w].pc = "getEncode" /\ req'[w].pc = "done" /\ Undisturbed(w))
                  => /\ L \in DOMAIN committed
                     /\ req'[w].status = StatusOK
                     /\ DecodeEntries(req'[w].entries) = committed[L]]_vars

\* a read, right after a create on a list that Lists does not know, has
\* returned the one record created, whose plate needs escaping in JSON
C8_Witness ==
    \E w \in Workers :
        /\ Answered(w, "GET")
        /\ req[w].status = StatusOK
        /\ Cardinality(obs[w].held) = 1
        /\ req[w].id \notin DOMAIN Lists
        /\ DecodeEntries(req[w].entries) = <<[ID |-> 1, Plate |-> <<"\"">>, VehicleType |-> <<"C">>]>>
        /\ created = [L \in {req[w].id} |-> SetToBag({DecodeEntries(req[w].entries)[1]})]

\* the steps of the terminal handlers that read or write Lists or Records
StorePcs == {"getLock", "getUnlock", "getEncode", "postLock", "postUnlock",
             "deleteLock", "deleteNoList", "deleteNoRecord", "deleteShift"}

\* C9: on the record route a request without a valid session is answered 401
\* before its id parameter or its method is looked at; a request with a
\* valid session and a missing or unparseable id is answered 400 before its
\* method is looked at; 405 is the answer only to a request that passed both
\* checks; and no terminal handler touches the store for a request whose
\* session check did not succeed.
C9_CheckOrder ==
    \A w \in Workers :
        req[w].route = "/api/v1/vehiclelist/record" =>
            /\ req[w].authed
                 => /\ req[w].cookie.present
                    /\ req[w].cookie.value \in DOMAIN Tokens
            /\ req[w].pc = "done"
                 => /\ (req[w].status = StatusUnauthorized) = ~req[w].authed
                    /\ ~req[w].authed
                         => /\ req[w].scoped = 0 /\ req[w].method = ""
                            /\ \/ ~req[w].cookie.present
                               \/ req[w].cookie.value \notin DOMAIN Tokens
                               \/ now > Tokens[req[w].cookie.value].Expiry
                    /\ (req[w].authed /\ req[w].idStr \notin DOMAIN Int64Of)
                         => /\ req[w].status = StatusBadRequest
                            /\ req[w].scoped = 0 /\ req[w].method = ""
                    /\ (req[w].status = StatusMethodNotAllowed)
                         = (/\ req[w].authed /\ req[w].scoped = 1
                            /\ req[w].method \notin {"", "GET", "POST", "DELETE"})
            /\ req[w].pc \in StorePcs => (req[w].authed /\ req[w].scoped = 1)
            /\ obs[w].touched => (req[w].authed /\ req[w].scoped = 1)

\* a request with a valid session and a good id, answered 405
C9_Witness ==
    \E w \in Workers :
        /\ req[w].pc = "done"
        /\ req[w].route = "/api/v1/vehiclelist/record"
        /\ req[w].status = StatusMethodNotAllowed
        /\ req[w].cookie.value \in DOMAIN Tokens
        /\ req[w].idStr \in DOMAIN Int64Of

\* C10: recordMiddleware answers 400 and does not call the next handler
\* when id is missing, empty or no signed 64-bit decimal integer; otherwise
\* it calls the next handler once, and the list id that handler
\* reads from the context is the value of id.
C10_RecordScope ==
    [][\A w \in Workers :
         /\ (req[w].pc = "recordMiddleware" /\ req'[w].pc # "recordMiddleware")
              => IF req'[w].idStr \in DOMAIN Int64Of
                 THEN /\ req'[w].pc = "recordHandler"
                      /\ req'[w].status = 0
                      /\ req'[w].scoped = 1
                      /\ req'[w].ctx = [x \in {"id"} |-> Int64Of[req'[w].idStr]]
                 ELSE /\ req'[w].pc = "done"
                      /\ req'[w].status = StatusBadRequest
                      /\ req'[w].scoped = 0
         /\ (req[w].pc = "recordHandler" /\ req'[w].pc \in StorePcs)
              => req'[w].id = Int64Of[req[w].idStr]
         /\ req'[w].scoped # req[w].scoped
              => (req[w].pc = "recordMiddleware" \/ req'[w].pc = "idle")]_vars

\* a handler that works on list 2, which the request named as "+2"
C10_Witness ==
    \E w \in Workers :
        /\ req[w].pc \in StorePcs
        /\ req[w].idStr = <<"+", "2">>
        /\ req[w].id = 2
        /\ req[w].scoped = 1


\* ---- claims about logins and tokens

\* C11: a login that is no POST answers 405, a POST login whose body is not
\* well-formed JSON answers 400; a login that fails adds nothing to Tokens
\* and sets no cookie; Tokens changes only on the path that answers 200.
C11_FailedLoginKeepsTokens ==
    [][\A w \in Workers :
         /\ (req[w].pc = "loginHandler" /\ req'[w].pc # "loginHandler")
              => /\ req'[w].method # "POST"
                      => (req'[w].pc = "done" /\ req'[w].status = StatusMethodNotAllowed)
                 /\ (req'[w].method = "POST" /\ ~req'[w].body.wellFormed)
                      => (req'[w].pc = "done" /\ req'[w].status = StatusBadRequest)
         /\ (req[w].route = "/login" /\ req'[w].pc = "done" /\ req'[w].status # StatusOK)
              => /\ req'[w].status \in {StatusMethodNotAllowed, StatusBadRequest}
                 /\ ~obs'[w].touched
                 /\ ~req'[w].setCookie.present
                 /\ Tokens' = Tokens
         /\ (req[w].pc \in {"loginLock", "loginUnlock", "loginRespond"}
               /\ req'[w].pc = "done")
              => req'[w].status = StatusOK
         /\ (Tokens' # Tokens /\ req'[w] # req[w])
              => (req[w].pc = "loginLock" /\ req'[w].pc = "loginUnlock")]_vars

\* a POST login with a body that is no JSON has been answered 400 while
\* Tokens holds the entry of another login
C11_Witness ==
    \E w \in Workers :
        /\ req[w].route = "/login"
        /\ req[w].pc = "done"
        /\ req[w].method = "POST"
        /\ req[w].body = BadJSON
        /\ req[w].status = StatusBadRequest
        /\ Tokens # EmptyMap

\* the durations a configuration can ask for: the file's, or the default
ConfiguredExpiries ==
    {defaultExpiry} \cup {f.TokenExpiry : f \in {g \in ConfigFiles : g.TokenExpiry # 0}}

\* C12: whatever the configuration path, the duration that login uses is the
\* configured one or the default of 5 minutes, so the expiry stored for a
\* new token is later than the token's creation and the token is
\* accepted when it is presented at once.
C12_ExpiryAfterCreation ==
    \A w \in Workers :
        (req[w].route = "/login" /\ req[w].pc = "done" /\ req[w].status = StatusOK)
          => /\ tokenExpiry \in ConfiguredExpiries
             /\ req[w].expiry > req[w].id
             /\ Tokens[req[w].token].Expiry > req[w].id
             /\ now <= Tokens[req[w].token].Expiry

\* C13: no step changes or removes an entry of Tokens: the owner id and the
\* expiry stored under a token stay what the login that created it stored.
C13_TokensImmutable ==
    [][\A t \in DOMAIN Tokens :
         /\ t \in DOMAIN Tokens'
         /\ Tokens'[t] = Tokens[t]]_vars

\* C17: a successful login answers 200 with a cookie whose value is a key of
\* Tokens; the expiry stored under that key is the cookie's Expires and is
\* the login's clock reading plus tokenExpiry; the owner id stored under
\* that key is the id this login made.
C17_LoginResponse ==
    [][\A w \in Workers :
         /\ (req[w].pc = "loginExpiry" /\ req'[w].pc = "loginLock")
              => req'[w].expiry = now + tokenExpiry
         /\ (req[w].pc = "loginRespond" /\ req'[w].pc = "done")
              => /\ req'[w].status = StatusOK
                 /\ req'[w].setCookie = Cookie(req[w].token)
                 /\ req'[w].cookieExpires = req[w].expiry
                 /\ req[w].token \in DOMAIN Tokens'
                 /\ Tokens'[req[w].token].Expiry = req'[w].cookieExpires
                 /\ Tokens'[req[w].token].ID = req[w].id]_vars


\* ---- claims about the keys and the contents of Records

\* C18: no step removes a key of Records; Get Records and Delete Record
\* answer "List not found" only when their lookup found no entry for the
\* list, so a list that was once found is found by every later lookup.
C18_ListsStayKnown ==
    [][/\ DOMAIN Records \subseteq DOMAIN Records'
       /\ \A w \in Workers :
            /\ (req[w].pc \in {"getLock", "deleteLock"} /\ req'[w].pc # req[w].pc)
                 => req'[w].exists = (req[w].id \in DOMAIN Records)
            /\ (req[w].pc \notin {"idle", "done"} /\ req'[w].pc = "done"
                  /\ req'[w].text = "List not found")
                 => ~req[w].exists]_vars

\* the last record of a list has been deleted, and a read of the list then
\* answered 200 with no entries
C18_Witness ==
    \E w \in Workers :
        /\ Answered(w, "GET")
        /\ req[w].status = StatusOK
        /\ req[w].entries = NoEntries
        /\ req[w].id \in DOMAIN removed
        /\ Cardinality(obs[w].held) = 1
        /\ Records[req[w].id].len = 0

\* what conservation says of list L: its sequence holds the records created
\* on it less the records deleted from it
Conserved(L) ==
    LET seq == IF L \in DOMAIN Records THEN Stored(L) ELSE <<>>
    IN  /\ SeqToBag(seq) = BagOf(created, L) (-) BagOf(removed, L)
        /\ Len(seq) = BagCardinality(BagOf(created, L)) - BagCardinality(BagOf(removed, L))

\* a create or a delete on list L has the lock or has changed the store
\* and not answered yet
InFlight(L) ==
    \E w \in Workers : req[w].id = L /\ req[w].pc \in {"postUnlock", "deleteShift"}

\* C19, as stated: in every reachable state, for every list, the sequence
\* holds exactly the records whose create answered 201 less the records
\* whose delete answered 200.
C19_ConservationAlways ==
    \A L \in DOMAIN Records \cup DOMAIN created \cup DOMAIN removed : Conserved(L)

\* C19, corrected: the same, for every list on which no create or delete
\* is between changing the store and answering.
C19_Conservation ==
    \A L \in DOMAIN Records \cup DOMAIN created \cup DOMAIN removed :
        ~InFlight(L) => Conserved(L)

\* two creates and a delete on a list have been answered, the second create
\* having gone into the slot the delete freed
C19_Witness ==
    \E L \in DOMAIN removed :
        /\ ~InFlight(L)
        /\ BagCardinality(created[L]) = 2
        /\ BagCardinality(removed[L]) = 1
        /\ Records[L].cap = 1
        /\ Len(Stored(L)) = 1
        /\ Stored(L)[1] \notin DOMAIN removed[L]


\* ---- claims checked on requests served one after the other

\* C15: two requests on the record route with the same method, parameters
\* and body that find the same store get the same answer (status, text,
\* entries) and leave the same store, whichever valid tokens they carry.
C15_OwnerIndependent ==
    \A a, b \in trail.runs : a.key = b.key => a.out = b.out

\* two deletes that differ in their tokens only have found the same store,
\* and both have removed a record
C15_Witness ==
    \E a, b \in trail.runs :
        /\ a.key = b.key
        /\ a.token # b.token
        /\ a.key.method = "DELETE"
        /\ a.out.status = StatusOK
        /\ a.out.store # a.key.store

\* C16: a GET on the list route answers 200 with the entries of Lists, each
\* once, in some order, and a totalCount that is the number of entries
\* returned; any other method answers 405; no step of any handler changes
\* Lists.
C16_ListsReadOnly ==
    [][/\ Lists' = Lists
       /\ \A w \in Workers :
            /\ (req[w].pc = "vehicleListsHandler" /\ req'[w].pc # "vehicleListsHandler")
                 => IF req'[w].method = "GET"
                    THEN req'[w].pc = "listsUnlock"
                    ELSE /\ req'[w].pc = "done"
                         /\ req'[w].status = StatusMethodNotAllowed
            /\ (req[w].pc = "listsUnlock" /\ req'[w].pc = "done")
                 => /\ req'[w].status = StatusOK
                    /\ Len(req'[w].lists) = Cardinality(DOMAIN Lists)
                    /\ \A x \in DOMAIN Lists :
                         Cardinality({k \in 1..Len(req'[w].lists) :
                                         req'[w].lists[k] = Lists[x]}) = 1
                    /\ req'[w].totalCount = Len(req'[w].lists)]_vars

\* a read of the lists has returned the one list the server holds
C16_Witness ==
    \E w \in Workers :
        /\ req[w].route = "/api/v1/vehiclelists"
        /\ req[w].pc = "done"
        /\ req[w].status = StatusOK
        /\ req[w].lists = <<TestList>>
        /\ req[w].totalCount = 1
        /\ req[w].authed

\* the places of a handler between its storage.Lock() and its storage.Unlock()
Critical ==
    {"loginUnlock", "tokenUnlock", "listsUnlock", "getUnlock", "postUnlock",
     "deleteNoList", "deleteNoRecord", "deleteShift"}

\* the places of a handler at which it calls storage.Lock()
Locking == {"loginLock", "tokenMiddleware", "vehicleListsHandler",
            "getLock", "postLock", "deleteLock"}

\* worker w is being served and has not answered
Pending(w) == req[w].pc \notin {"idle", "done"}

\* C14: a handler holds the lock exactly between its Lock and its Unlock,
\* where it only accesses the store: it has released the lock when it writes
\* its answer and when it returns.  It takes the lock only when nobody,
\* itself included, holds it, and the lock it gives up is free afterwards.
\* Under fair scheduling every request that is being served is answered,
\* whichever exit its handler takes.
C14_LockDiscipline ==
    /\ [](\A w \in Workers :
            /\ (mu = w) = (req[w].pc \in Critical)
            /\ (req[w].status # 0 \/ req[w].pc \in {"idle", "done"}) => mu # w)
    /\ [][\A w \in Workers :
            /\ (req[w].pc \notin Critical /\ req'[w].pc \in Critical)
                 => (req[w].pc \in Locking /\ mu = 0 /\ mu' = w)
            /\ (req[w].pc \in Critical /\ req'[w].pc \notin Critical)
                 => (mu = w /\ mu' = 0)
            /\ (req[w].pc \in Critical /\ req'[w].pc \in Critical)
                 => (mu = w /\ mu' = w)]_vars
    /\ \A w \in Workers : Pending(w) ~> (req[w].pc = "done")

\* a Delete Record that found its record holds the lock while another Delete
\* Record waits for it
C14_Witness ==
    \E v, w \in Workers :
        /\ v # w
        /\ mu = v
        /\ req[v].pc = "deleteShift"
        /\ req[w].pc = "deleteLock"


====
